---- MODULE Spec2Model ----
(***************************************************************************)
(* zod-storage: a validated persistence layer over Web Storage.            *)
(*                                                                         *)
(* The model follows the accessor of src/src/core/zodStorage.ts (get, set, *)
(* remove, init) over the two Storage objects chosen by                    *)
(* src/src/utils/getStorageObject.ts.  JavaScript values, JSON.stringify,  *)
(* JSON.parse and the zod validator are modelled by what they compute:     *)
(* the store holds real JSON text, and reading it back runs a parser.      *)
(***************************************************************************)
EXTENDS Integers, Sequences, FiniteSets, TLC

(***************************************************************************)
(* Bounds of the model.                                                    *)
(***************************************************************************)
\* Largest number used as a value written through set.
MaxNum == 1

(***************************************************************************)
(* JavaScript values.  Every value is a record of the same shape so that   *)
(* any two values can be compared: t is the type tag, s the text of a      *)
(* string, n the number (or 1/0 for true/false), keys the property names   *)
(* of an object and items the elements of an array or the property values  *)
(* of an object, in the order of keys.                                     *)
(***************************************************************************)
JV(t, s, n, keys, items) ==
    [t |-> t, s |-> s, n |-> n, keys |-> keys, items |-> items]

JUndefined == JV("undefined", "", 0, <<>>, <<>>)
JNull == JV("null", "", 0, <<>>, <<>>)
JNaN == JV("nan", "", 0, <<>>, <<>>)
JBool(b) == JV("boolean", "", IF b THEN 1 ELSE 0, <<>>, <<>>)
JNum(n) == JV("number", "", n, <<>>, <<>>)
JStr(s) == JV("string", s, 0, <<>>, <<>>)
JArr(items) == JV("array", "", 0, <<>>, items)
JObj(keys, items) == JV("object", "", 0, keys, items)

\* Index of key k in keys, 0 when there is none.
RECURSIVE KeyIndex(_, _, _)
KeyIndex(keys, k, i) ==
    IF i > Len(keys) THEN 0
    ELSE IF keys[i] = k THEN i
    ELSE KeyIndex(keys, k, i + 1)

\* obj[k] of JavaScript: the property value, undefined when missing.
GetProp(obj, k) ==
    LET i == KeyIndex(obj.keys, k, 1)
    IN  IF i = 0 THEN JUndefined ELSE obj.items[i]

\* obj[k] = v of JavaScript: replaces in place, or appends a new property.
SetProp(obj, k, v) ==
    LET i == KeyIndex(obj.keys, k, 1)
    IN  IF i = 0
        THEN JObj(Append(obj.keys, k), Append(obj.items, v))
        ELSE JObj(obj.keys, [obj.items EXCEPT ![i] = v])

(***************************************************************************)
(* JSON.stringify, as zodStorage.set calls it (zodStorage.ts:75).          *)
(* The result is a string, or undefined for a value with no encoding.      *)
(***************************************************************************)
Digits == "0123456789"

RECURSIVE NatToString(_)
NatToString(n) ==
    IF n < 10 THEN SubSeq(Digits, n + 1, n + 1)
    ELSE NatToString(n \div 10) \o SubSeq(Digits, (n % 10) + 1, (n % 10) + 1)

NumberToString(n) ==
    IF n < 0 THEN "-" \o NatToString(0 - n) ELSE NatToString(n)

\* QuoteJSONString: a double quote and a backslash are escaped.
RECURSIVE EscapeFrom(_, _)
EscapeFrom(s, i) ==
    IF i > Len(s) THEN ""
    ELSE LET c == SubSeq(s, i, i)
         IN  (IF c = "\"" THEN "\\\""
              ELSE IF c = "\\" THEN "\\\\"
              ELSE c) \o EscapeFrom(s, i + 1)

Quote(s) == "\"" \o EscapeFrom(s, 1) \o "\""

StrOf(s) == [undef |-> FALSE, s |-> s]
StrUndefined == [undef |-> TRUE, s |-> ""]

RECURSIVE SerializeJSONProperty(_)
RECURSIVE SerializeElements(_, _)
RECURSIVE SerializeProperties(_, _, _)

\* Array elements from index i on; undefined and NaN elements become null.
SerializeElements(items, i) ==
    IF i > Len(items) THEN ""
    ELSE LET e == SerializeJSONProperty(items[i])
         IN  (IF i > 1 THEN "," ELSE "")
             \o (IF e.undef THEN "null" ELSE e.s)
             \o SerializeElements(items, i + 1)

\* Object properties from index i on; a property whose value has no
\* encoding is left out.  first says whether nothing was emitted so far.
SerializeProperties(obj, i, first) ==
    IF i > Len(obj.keys) THEN ""
    ELSE LET e == SerializeJSONProperty(obj.items[i])
         IN  IF e.undef THEN SerializeProperties(obj, i + 1, first)
             ELSE (IF first THEN "" ELSE ",")
                  \o Quote(obj.keys[i]) \o ":" \o e.s
                  \o SerializeProperties(obj, i + 1, FALSE)

SerializeJSONProperty(v) ==
    CASE v.t = "undefined" -> StrUndefined
      [] v.t = "null" -> StrOf("null")
      [] v.t = "nan" -> StrOf("null")
      [] v.t = "boolean" -> StrOf(IF v.n = 1 THEN "true" ELSE "false")
      [] v.t = "number" -> StrOf(NumberToString(v.n))
      [] v.t = "string" -> StrOf(Quote(v.s))
      [] v.t = "array" -> StrOf("[" \o SerializeElements(v.items, 1) \o "]")
      [] v.t = "object" -> StrOf("{" \o SerializeProperties(v, 1, TRUE) \o "}")

JSONstringify(v) == SerializeJSONProperty(v)

(***************************************************************************)
(* JSON.parse, as zodStorage.get calls it (zodStorage.ts:36): a recursive  *)
(* descent over the characters of the text.  A parse step returns          *)
(* [ok, val, pos]: whether it succeeded, the value read and the position   *)
(* after it.  The grammar covers null, true, false, integers, strings      *)
(* with the escapes \" \\ \/, arrays and objects, with blanks between      *)
(* tokens; any other text is a SyntaxError.                                *)
(***************************************************************************)
PFail == [ok |-> FALSE, val |-> JUndefined, pos |-> 0]
POk(v, p) == [ok |-> TRUE, val |-> v, pos |-> p]

CharAt(s, i) == IF i >= 1 /\ i <= Len(s) THEN SubSeq(s, i, i) ELSE ""

StartsWithAt(s, i, w) ==
    /\ i >= 1
    /\ i + Len(w) - 1 <= Len(s)
    /\ SubSeq(s, i, i + Len(w) - 1) = w

RECURSIVE SkipWS(_, _)
SkipWS(s, i) == IF CharAt(s, i) = " " THEN SkipWS(s, i + 1) ELSE i

IsDigit(c) == c # "" /\ \E k \in 1..10 : SubSeq(Digits, k, k) = c
DigitValue(c) == (CHOOSE k \in 1..10 : SubSeq(Digits, k, k) = c) - 1

RECURSIVE ParseDigits(_, _, _)
ParseDigits(s, i, acc) ==
    IF IsDigit(CharAt(s, i))
    THEN ParseDigits(s, i + 1, acc * 10 + DigitValue(CharAt(s, i)))
    ELSE [n |-> acc, pos |-> i]

\* -? ( 0 | [1-9][0-9]* )
ParseNumber(s, i) ==
    LET neg == CharAt(s, i) = "-"
        j == IF neg THEN i + 1 ELSE i
        c == CharAt(s, j)
    IN  IF ~IsDigit(c) THEN PFail
        ELSE IF c = "0" THEN POk(JNum(0), j + 1)
        ELSE LET r == ParseDigits(s, j, 0)
             IN  POk(JNum(IF neg THEN 0 - r.n ELSE r.n), r.pos)

\* The characters after an opening quote, up to the closing quote.
RECURSIVE ParseChars(_, _, _)
ParseChars(s, i, acc) ==
    LET c == CharAt(s, i)
    IN  IF c = "" THEN PFail
        ELSE IF c = "\"" THEN POk(JStr(acc), i + 1)
        ELSE IF c = "\\"
             THEN LET e == CharAt(s, i + 1)
                  IN  IF e \in {"\"", "\\", "/"}
                      THEN ParseChars(s, i + 2, acc \o e)
                      ELSE PFail
        ELSE ParseChars(s, i + 1, acc \o c)

ParseString(s, i) ==
    IF CharAt(s, i) = "\"" THEN ParseChars(s, i + 1, "") ELSE PFail

RECURSIVE ParseValue(_, _)
RECURSIVE ParseElements(_, _, _)
RECURSIVE ParseMembers(_, _, _)

ParseElements(s, i, acc) ==
    LET r == ParseValue(s, i)
    IN  IF ~r.ok THEN PFail
        ELSE LET k == SkipWS(s, r.pos)
                 c == CharAt(s, k)
             IN  IF c = "," THEN ParseElements(s, k + 1, Append(acc, r.val))
                 ELSE IF c = "]" THEN POk(JArr(Append(acc, r.val)), k + 1)
                 ELSE PFail

ParseArray(s, i) ==
    LET j == SkipWS(s, i + 1)
    IN  IF CharAt(s, j) = "]" THEN POk(JArr(<<>>), j + 1)
        ELSE ParseElements(s, j, <<>>)

ParseMembers(s, i, obj) ==
    LET k == ParseString(s, SkipWS(s, i))
    IN  IF ~k.ok THEN PFail
        ELSE LET c == SkipWS(s, k.pos)
             IN  IF CharAt(s, c) # ":" THEN PFail
                 ELSE LET r == ParseValue(s, c + 1)
                      IN  IF ~r.ok THEN PFail
                          ELSE LET e == SkipWS(s, r.pos)
                                   o == SetProp(obj, k.val.s, r.val)
                               IN  IF CharAt(s, e) = ","
                                   THEN ParseMembers(s, e + 1, o)
                                   ELSE IF CharAt(s, e) = "}"
                                   THEN POk(o, e + 1)
                                   ELSE PFail

ParseObject(s, i) ==
    LET j == SkipWS(s, i + 1)
    IN  IF CharAt(s, j) = "}" THEN POk(JObj(<<>>, <<>>), j + 1)
        ELSE ParseMembers(s, j, JObj(<<>>, <<>>))

ParseValue(s, i0) ==
    LET i == SkipWS(s, i0)
        c == CharAt(s, i)
    IN  IF StartsWithAt(s, i, "null") THEN POk(JNull, i + 4)
        ELSE IF StartsWithAt(s, i, "true") THEN POk(JBool(TRUE), i + 4)
        ELSE IF StartsWithAt(s, i, "false") THEN POk(JBool(FALSE), i + 5)
        ELSE IF c = "\"" THEN ParseString(s, i)
        ELSE IF c = "[" THEN ParseArray(s, i)
        ELSE IF c = "{" THEN ParseObject(s, i)
        ELSE IF c = "-" \/ IsDigit(c) THEN ParseNumber(s, i)
        ELSE PFail

\* [threw, val]: JSON.parse throws a SyntaxError unless the whole text,
\* up to trailing blanks, is one JSON value.
JSONparse(text) ==
    LET r == ParseValue(text, 1)
    IN  IF r.ok /\ SkipWS(text, r.pos) > Len(text)
        THEN [threw |-> FALSE, val |-> r.val]
        ELSE [threw |-> TRUE, val |-> JUndefined]

(***************************************************************************)
(* The zod validator, as get calls it (schema.safeParse, zodStorage.ts:37).*)
(* A schema is a record [kind, keys, subs]; safeParse returns              *)
(* [success, data, issues], data being the schema's output (transformed    *)
(* where the schema transforms) and issues the codes of the failures.      *)
(***************************************************************************)
ZSchema(kind, keys, subs) == [kind |-> kind, keys |-> keys, subs |-> subs]

zAny == ZSchema("any", <<>>, <<>>)
zNumber == ZSchema("number", <<>>, <<>>)
zString == ZSchema("string", <<>>, <<>>)
\* z.string().email()
zEmail == ZSchema("email", <<>>, <<>>)
\* z.string().transform((val) => val.toUpperCase())
zUpperCase == ZSchema("toUpperCase", <<>>, <<>>)
\* z.string().transform((val) => val.length): the output is not a string.
zLength == ZSchema("length", <<>>, <<>>)
\* z.number().transform((val) => val + 1): applied twice it adds two.
zIncrement == ZSchema("increment", <<>>, <<>>)
zNullable(inner) == ZSchema("nullable", <<>>, <<inner>>)
zArray(element) == ZSchema("array", <<>>, <<element>>)
zObject(keys, subs) == ZSchema("object", keys, subs)

\* config.schema of a configuration that has no schema property: undefined.
NoSchema == ZSchema("undefined", <<>>, <<>>)

LowerLetters == "abcdefghijklmnopqrstuvwxyz"
UpperLetters == "ABCDEFGHIJKLMNOPQRSTUVWXYZ"

UpperChar(c) ==
    IF \E k \in 1..26 : SubSeq(LowerLetters, k, k) = c
    THEN LET k == CHOOSE k \in 1..26 : SubSeq(LowerLetters, k, k) = c
         IN  SubSeq(UpperLetters, k, k)
    ELSE c

RECURSIVE ToUpperCaseFrom(_, _)
ToUpperCaseFrom(s, i) ==
    IF i > Len(s) THEN ""
    ELSE UpperChar(SubSeq(s, i, i)) \o ToUpperCaseFrom(s, i + 1)

toUpperCase(s) == ToUpperCaseFrom(s, 1)

\* The email format, reduced to: an @ with text on both sides.
IsEmail(s) == \E i \in 2..(Len(s) - 1) : SubSeq(s, i, i) = "@"

ParseSuccess(data) == [success |-> TRUE, data |-> data, issues |-> <<>>]
ParseFailure(issues) == [success |-> FALSE, data |-> JUndefined, issues |-> issues]

RECURSIVE safeParse(_, _)
RECURSIVE ParseItems(_, _, _, _, _)
RECURSIVE ParseShape(_, _, _, _, _)

\* Every element of an array against the element schema.
ParseItems(element, items, i, data, issues) ==
    IF i > Len(items)
    THEN IF issues = <<>> THEN ParseSuccess(JArr(data)) ELSE ParseFailure(issues)
    ELSE LET r == safeParse(element, items[i])
         IN  ParseItems(element, items, i + 1,
                        IF r.success THEN Append(data, r.data) ELSE data,
                        issues \o r.issues)

\* Every key of an object schema against the property of that name;
\* properties the schema does not name are stripped from the output.
ParseShape(schema, v, i, data, issues) ==
    IF i > Len(schema.keys)
    THEN IF issues = <<>> THEN ParseSuccess(data) ELSE ParseFailure(issues)
    ELSE LET r == safeParse(schema.subs[i], GetProp(v, schema.keys[i]))
         IN  ParseShape(schema, v, i + 1,
                        IF r.success /\ r.data.t # "undefined"
                        THEN SetProp(data, schema.keys[i], r.data) ELSE data,
                        issues \o r.issues)

safeParse(schema, v) ==
    CASE schema.kind = "any" -> ParseSuccess(v)
      [] schema.kind = "number" ->
            IF v.t = "number" THEN ParseSuccess(v)
            ELSE ParseFailure(<<"invalid_type">>)
      [] schema.kind = "string" ->
            IF v.t = "string" THEN ParseSuccess(v)
            ELSE ParseFailure(<<"invalid_type">>)
      [] schema.kind = "email" ->
            IF v.t # "string" THEN ParseFailure(<<"invalid_type">>)
            ELSE IF ~IsEmail(v.s) THEN ParseFailure(<<"invalid_format">>)
            ELSE ParseSuccess(v)
      [] schema.kind = "toUpperCase" ->
            IF v.t = "string" THEN ParseSuccess(JStr(toUpperCase(v.s)))
            ELSE ParseFailure(<<"invalid_type">>)
      [] schema.kind = "length" ->
            IF v.t = "string" THEN ParseSuccess(JNum(Len(v.s)))
            ELSE ParseFailure(<<"invalid_type">>)
      [] schema.kind = "increment" ->
            IF v.t = "number" THEN ParseSuccess(JNum(v.n + 1))
            ELSE ParseFailure(<<"invalid_type">>)
      [] schema.kind = "nullable" ->
            IF v.t = "null" THEN ParseSuccess(v)
            ELSE safeParse(schema.subs[1], v)
      [] schema.kind = "array" ->
            IF v.t = "array"
            THEN ParseItems(schema.subs[1], v.items, 1, <<>>, <<>>)
            ELSE ParseFailure(<<"invalid_type">>)
      [] schema.kind = "object" ->
            IF v.t = "object"
            THEN ParseShape(schema, v, 1, JObj(<<>>, <<>>), <<>>)
            ELSE ParseFailure(<<"invalid_type">>)

(***************************************************************************)
(* Errors and the outcome of a call.                                       *)
(***************************************************************************)
\* A JavaScript error: its class, its message and, for a ZodError, issues.
JsError(name, message, issues) ==
    [name |-> name, message |-> message, issues |-> issues]

NoError == JsError("", "", <<>>)
SyntaxError == JsError("SyntaxError", "Unexpected token", <<>>)

RECURSIVE JoinIssues(_, _)
JoinIssues(issues, i) ==
    IF i > Len(issues) THEN ""
    ELSE (IF i > 1 THEN "," ELSE "") \o issues[i] \o JoinIssues(issues, i + 1)

\* result.error of a failed safeParse; its message is the issue list.
ZodError(issues) == JsError("ZodError", "[" \o JoinIssues(issues, 1) \o "]", issues)

\* What reading a property of undefined throws.
UndefinedPropertyError(property) ==
    JsError("TypeError",
            "Cannot read properties of undefined (reading '" \o property \o "')",
            <<>>)

\* new Error(message)
Error(message) == JsError("Error", message, <<>>)

Return(v) == [kind |-> "return", value |-> v, error |-> NoError]
Throw(e) == [kind |-> "throw", value |-> JUndefined, error |-> e]

(***************************************************************************)
(* The two Storage objects.  A Storage is a function from the keys that    *)
(* are present to their strings.                                           *)
(***************************************************************************)
VARIABLES
    localStorage,     \* window.localStorage
    sessionStorage,   \* window.sessionStorage
    last,             \* the call made last, with its outcome
    prev              \* the call made before it, in short

vars == <<localStorage, sessionStorage, last, prev>>

EmptyStorage == [k \in {} |-> ""]

\* Storage.getItem: null when the key is absent.
getItem(storageObj, key) ==
    IF key \in DOMAIN storageObj
    THEN [isNull |-> FALSE, s |-> storageObj[key]]
    ELSE [isNull |-> TRUE, s |-> ""]

\* Storage.setItem: the storage with key set to the string.
setItem(storageObj, key, s) ==
    [k \in (DOMAIN storageObj) \cup {key} |-> IF k = key THEN s ELSE storageObj[k]]

\* Storage.removeItem: the storage without key.
removeItem(storageObj, key) ==
    [k \in (DOMAIN storageObj) \ {key} |-> storageObj[k]]

\* A mutation: undefined is stored as the empty string.
ToDOMString_undefinedIsEmpty(x) == IF x.undef THEN "" ELSE x.s

\* The conversion of setItem's argument to a string: undefined becomes
\* the text "undefined".
ToDOMString(x) == IF x.undef THEN "undefined" ELSE x.s

\* const { storage = 'local' } = storageConfig
StorageOf(storageConfig) ==
    IF storageConfig.storage = "undefined" THEN "local" ELSE storageConfig.storage

\* A mutation: every type selects localStorage.
getStorageObject_localOnly(type) == localStorage

getStorageObject(type) ==
    IF type = "session" THEN sessionStorage ELSE localStorage

(***************************************************************************)
(* Entry descriptors (storage configurations).                             *)
(***************************************************************************)
\* zs(config) of core/zs.ts: the configuration object, field by field.
zs(key, schema, defaultValue, storage) ==
    [key |-> key, value |-> schema, defaultValue |-> defaultValue,
     storage |-> storage]

\* ss(config) of src/ss.ts: defaultValue is optional and there is no
\* storage field; both read as undefined when missing.
ss(key, schema, defaultValue) ==
    [key |-> key, value |-> schema, defaultValue |-> defaultValue,
     storage |-> "undefined"]

UserSchema == zObject(<<"id", "name">>, <<zNumber, zString>>)
User(id, name) == JObj(<<"id", "name">>, <<JNum(id), JStr(name)>>)

\* The descriptors the calls are made with, by name.  All of them address
\* the same key of localStorage.
NumbersStorage == zs("k", zArray(zNumber), JArr(<<>>), "undefined")
UserStorage == zs("k", UserSchema, User(0, ""), "undefined")
TransformStorage == zs("k", zUpperCase, JStr("a"), "undefined")
EmailStorage == zs("k", zEmail, JStr(""), "undefined")
AnyStorage == zs("k", zAny, JNull, "local")
WithoutDefault == ss("k", zNullable(zString), JUndefined)

\* The descriptors of the storage-type tests: one without a storage field,
\* one with storage 'session', and one with storage 'local', all three on
\* the same key.
LocalData == zs("k", zString, JStr(""), "undefined")
SessionData == zs("k", zString, JStr(""), "session")
ExplicitLocalData == zs("k", zString, JStr(""), "local")

\* A configuration of a key and a default value only: zs copies
\* config.schema, which is undefined.
KeyAndDefault == zs("k", NoSchema, JArr(<<JNum(1)>>), "undefined")

Config(d) ==
    CASE d = "numbers" -> NumbersStorage
      [] d = "user" -> UserStorage
      [] d = "transform" -> TransformStorage
      [] d = "email" -> EmailStorage
      [] d = "any" -> AnyStorage
      [] d = "withoutDefault" -> WithoutDefault
      [] d = "localData" -> LocalData
      [] d = "sessionData" -> SessionData
      [] d = "explicitLocalData" -> ExplicitLocalData
      [] d = "keyAndDefault" -> KeyAndDefault

Descriptors == {"numbers", "user", "transform", "email", "any", "withoutDefault"}

\* The values passed to set.
Values ==
    {JNull, JUndefined, JNaN, JStr("a"), JStr("a@b")}
    \cup {JArr(<<JNum(n)>>) : n \in 1..MaxNum}
    \cup {User(n, "a") : n \in 1..MaxNum}

\* options of get: omitted, or { onFailure }.
GetOptions == {"undefined", "null", "default", "throw"}

\* Strings written to the store behind the accessor's back, as the tests do
\* with localStorage.setItem(key, text).
ForeignTexts == {"", "invalid json", "{\"id\":\"1\"}"}

(***************************************************************************)
(* The accessor: zodStorage.get / set / remove / init.                     *)
(***************************************************************************)
\* const { onFailure = 'null' } = options ?? {}
OnFailureOf(options) == IF options = "undefined" THEN "null" ELSE options

\* A mutation: the two arms of the conditional are swapped.
validationFailed_swapped(error, onFailure, defaultValue) ==
    IF onFailure = "throw" THEN Throw(error)
    ELSE Return(IF onFailure = "default" THEN JNull ELSE defaultValue)

\* A mutation: the default value answers a failure under 'null' as well.
validationFailed_defaultUnlessThrow(error, onFailure, defaultValue) ==
    IF onFailure = "throw" THEN Throw(error) ELSE Return(defaultValue)

\* get, after safeParse failed: rethrows under 'throw', else the default
\* value or null.
validationFailed(error, onFailure, defaultValue) ==
    IF onFailure = "throw" THEN Throw(error)
    ELSE Return(IF onFailure = "default" THEN defaultValue ELSE JNull)

\* A mutation: the decoded value is returned, not the schema's output.
tryBlock_returnsParsed(storageConfig, onFailure, storageObj) ==
    LET raw == getItem(storageObj, storageConfig.key)
        parsed == JSONparse(raw.s)
        result == safeParse(storageConfig.value, parsed.val)
    IN  IF raw.isNull \/ raw.s = "" THEN Return(JNull)
        ELSE IF parsed.threw THEN Throw(SyntaxError)
        ELSE IF storageConfig.value = NoSchema
        THEN Throw(UndefinedPropertyError("safeParse"))
        ELSE IF result.success THEN Return(parsed.val)
        ELSE validationFailed(ZodError(result.issues), onFailure,
                              storageConfig.defaultValue)

\* A mutation: only a missing key counts as absent, an empty text does not.
tryBlock_nullOnly(storageConfig, onFailure, storageObj) ==
    LET raw == getItem(storageObj, storageConfig.key)
        parsed == JSONparse(raw.s)
        result == safeParse(storageConfig.value, parsed.val)
    IN  IF raw.isNull THEN Return(JNull)
        ELSE IF parsed.threw THEN Throw(SyntaxError)
        ELSE IF storageConfig.value = NoSchema
        THEN Throw(UndefinedPropertyError("safeParse"))
        ELSE IF result.success THEN Return(result.data)
        ELSE validationFailed(ZodError(result.issues), onFailure,
                              storageConfig.defaultValue)

\* A mutation: a null output of the schema is taken for a failure.
tryBlock_nullIsFailure(storageConfig, onFailure, storageObj) ==
    LET raw == getItem(storageObj, storageConfig.key)
        parsed == JSONparse(raw.s)
        result == safeParse(storageConfig.value, parsed.val)
    IN  IF raw.isNull \/ raw.s = "" THEN Return(JNull)
        ELSE IF parsed.threw THEN Throw(SyntaxError)
        ELSE IF storageConfig.value = NoSchema
        THEN Throw(UndefinedPropertyError("safeParse"))
        ELSE IF result.success /\ result.data # JNull THEN Return(result.data)
        ELSE validationFailed(ZodError(result.issues), onFailure,
                              storageConfig.defaultValue)

\* get, the try block: what it returns or throws.
tryBlock(storageConfig, onFailure, storageObj) ==
    LET raw == getItem(storageObj, storageConfig.key)
        parsed == JSONparse(raw.s)
        result == safeParse(storageConfig.value, parsed.val)
    IN  IF raw.isNull \/ raw.s = "" THEN Return(JNull)
        ELSE IF parsed.threw THEN Throw(SyntaxError)
        ELSE IF storageConfig.value = NoSchema
        THEN Throw(UndefinedPropertyError("safeParse"))
        ELSE IF result.success THEN Return(result.data)
        ELSE validationFailed(ZodError(result.issues), onFailure,
                              storageConfig.defaultValue)

\* A mutation: the catch block swallows the error and returns null.
catchBlock_null(err, onFailure, defaultValue) ==
    IF onFailure = "throw"
    THEN Throw(Error("SafeStorage parsing error: " \o err.message))
    ELSE Return(JNull)

\* A mutation: the catch block recovers from a SyntaxError only and lets
\* any other error through.
catchBlock_syntaxErrorOnly(err, onFailure, defaultValue) ==
    IF err.name # "SyntaxError" THEN Throw(err)
    ELSE IF onFailure = "throw"
    THEN Throw(Error("SafeStorage parsing error: " \o err.message))
    ELSE Return(IF onFailure = "default" THEN defaultValue ELSE JNull)

\* get, the catch block.  Whatever the try block threw is an Error (a
\* SyntaxError of JSON.parse, or the ZodError thrown three lines above).
catchBlock(err, onFailure, defaultValue) ==
    IF onFailure = "throw"
    THEN Throw(Error("SafeStorage parsing error: " \o err.message))
    ELSE Return(IF onFailure = "default" THEN defaultValue ELSE JNull)

\* A mutation: a missing key is answered by the default value under 'default'.
get_absentDefault(storageConfig, options, storageObj) ==
    LET onFailure == OnFailureOf(options)
        tried == tryBlock(storageConfig, onFailure, storageObj)
    IN  IF getItem(storageObj, storageConfig.key).isNull /\ onFailure = "default"
        THEN Return(storageConfig.defaultValue)
        ELSE IF tried.kind = "throw"
        THEN catchBlock(tried.error, onFailure, storageConfig.defaultValue)
        ELSE tried

\* get: the outcome of the call, storageObj being the storage object that
\* getStorageObject(storage) returned.
get(storageConfig, options, storageObj) ==
    LET onFailure == OnFailureOf(options)
        tried == tryBlock(storageConfig, onFailure, storageObj)
    IN  IF tried.kind = "throw"
        THEN catchBlock(tried.error, onFailure, storageConfig.defaultValue)
        ELSE tried

\* A mutation: set keeps an entry that is already there.
set_ifAbsent(storageConfig, data, storageObj) ==
    IF getItem(storageObj, storageConfig.key).isNull
    THEN setItem(storageObj, storageConfig.key, ToDOMString(JSONstringify(data)))
    ELSE storageObj

\* A mutation: set stores the schema's output for the data.
set_storesOutput(storageConfig, data, storageObj) ==
    setItem(storageObj, storageConfig.key,
            ToDOMString(JSONstringify(
                IF safeParse(storageConfig.value, data).success
                THEN safeParse(storageConfig.value, data).data
                ELSE data)))

\* set: the storage object after storageObj.setItem(key, JSON.stringify(data)).
set(storageConfig, data, storageObj) ==
    setItem(storageObj, storageConfig.key, ToDOMString(JSONstringify(data)))

\* A mutation: remove leaves the entry in place.
remove_noop(storageConfig, storageObj) == storageObj

\* A mutation: remove clears the storage object.
remove_clearsStorage(storageConfig, storageObj) == EmptyStorage

\* remove: the storage object after storageObj.removeItem(key).
remove(storageConfig, storageObj) ==
    removeItem(storageObj, storageConfig.key)

\* A mutation: init writes only when the key is absent.
init_ifAbsent(storageConfig, storageObj) ==
    IF getItem(storageObj, storageConfig.key).isNull
    THEN set(storageConfig, storageConfig.defaultValue, storageObj)
    ELSE storageObj

\* init: set(storageConfig, defaultValue).
init(storageConfig, storageObj) ==
    set(storageConfig, storageConfig.defaultValue, storageObj)

(***************************************************************************)
(* The state machine.                                                      *)
(***************************************************************************)
\* A call: the operation, the descriptor's name, the data passed (set),
\* the options passed (get), the entry at the descriptor's key before the
\* call, and the outcome.
Call(op, d, data, options, pre, out) ==
    [op |-> op, d |-> d, data |-> data, options |-> options,
     pre |-> pre, out |-> out]

NoEntry == getItem(EmptyStorage, "k")

NoCall == Call("none", "", JUndefined, "undefined", NoEntry, Return(JUndefined))

\* What is remembered of a call once another follows it: the operation, the
\* descriptor and the data, and for init and remove the entry they replaced.
Before(call) ==
    [op |-> call.op, d |-> call.d, data |-> call.data,
     pre |-> IF call.op \in {"init", "remove"} THEN call.pre ELSE NoEntry]

\* The storage object the descriptor selects, and the entry at its key.
StorageObj(d) == getStorageObject(StorageOf(Config(d)))
Entry(d) == getItem(StorageObj(d), Config(d).key)

\* Replaces the storage object the descriptor selects; the other is kept.
Store(storageConfig, storageObj) ==
    IF StorageOf(storageConfig) = "session"
    THEN sessionStorage' = storageObj /\ UNCHANGED localStorage
    ELSE localStorage' = storageObj /\ UNCHANGED sessionStorage

Record(call) == last' = call /\ prev' = Before(last)

Init ==
    /\ localStorage = EmptyStorage
    /\ sessionStorage = EmptyStorage
    /\ last = NoCall
    /\ prev = Before(NoCall)

\* A mutation: a get that fails on the stored text removes the entry.
Get_removesInvalid(d, options) ==
    /\ Record(Call("get", d, JUndefined, options, Entry(d), get(Config(d), options, StorageObj(d))))
    /\ IF ~Entry(d).isNull /\ Entry(d).s # "" /\ JSONparse(Entry(d).s).threw
       THEN Store(Config(d), remove(Config(d), StorageObj(d)))
       ELSE UNCHANGED <<localStorage, sessionStorage>>

Get(d, options) ==
    /\ Record(Call("get", d, JUndefined, options, Entry(d), get(Config(d), options, StorageObj(d))))
    /\ UNCHANGED <<localStorage, sessionStorage>>

Set(d, data) ==
    /\ Store(Config(d), set(Config(d), data, StorageObj(d)))
    /\ Record(Call("set", d, data, "undefined", Entry(d), Return(JUndefined)))

Remove(d) ==
    /\ Store(Config(d), remove(Config(d), StorageObj(d)))
    /\ Record(Call("remove", d, JUndefined, "undefined", Entry(d), Return(JUndefined)))

InitDefault(d) ==
    /\ Store(Config(d), init(Config(d), StorageObj(d)))
    /\ Record(Call("init", d, JUndefined, "undefined", Entry(d), Return(JUndefined)))

\* localStorage.setItem(key, text) by code outside the accessor.
ForeignSetItem(key, text) ==
    /\ localStorage' = setItem(localStorage, key, text)
    /\ UNCHANGED sessionStorage
    /\ Record(Call("setItem", "", JStr(text), "undefined",
                   getItem(localStorage, key), Return(JUndefined)))

Next ==
    \/ \E d \in Descriptors, options \in GetOptions : Get(d, options)
    \/ \E d \in Descriptors, data \in Values : Set(d, data)
    \/ \E d \in Descriptors : Remove(d)
    \/ \E d \in Descriptors : InitDefault(d)
    \/ \E text \in ForeignTexts : ForeignSetItem("k", text)

Spec == Init /\ [][Next]_vars

(***************************************************************************)
(* The two backends: descriptors on one key of localStorage and of         *)
(* sessionStorage, and the documented call zodStorage.clear(storage).      *)
(***************************************************************************)
BackendDescriptors == {"localData", "sessionData", "explicitLocalData"}
BackendValues == {JStr("a"), JStr("b")}
BackendGetOptions == {"undefined", "default"}

\* The properties of the exported object: { get, set, remove, init }.
zodStorage == {"get", "set", "remove", "init"}

\* What calling a property that is undefined throws.
TypeError(property) ==
    JsError("TypeError", "zodStorage." \o property \o " is not a function", <<>>)

\* sessionStorage.setItem(key, text) by code outside the accessor.
SessionSetItem(key, text) ==
    /\ sessionStorage' = setItem(sessionStorage, key, text)
    /\ UNCHANGED localStorage
    /\ Record(Call("setItem", "", JStr(text), "undefined",
                   getItem(sessionStorage, key), Return(JUndefined)))

\* zodStorage.clear(storage), as the README calls it: the exported object
\* has no such property, so the call throws and no storage is touched.
Clear(d) ==
    /\ "clear" \notin zodStorage
    /\ UNCHANGED <<localStorage, sessionStorage>>
    /\ Record(Call("clear", d, JUndefined, "undefined", Entry(d),
                   Throw(TypeError("clear"))))

NextBackend ==
    \/ \E d \in BackendDescriptors, options \in BackendGetOptions : Get(d, options)
    \/ \E d \in BackendDescriptors, data \in BackendValues : Set(d, data)
    \/ \E d \in BackendDescriptors : Remove(d)
    \/ \E d \in BackendDescriptors : InitDefault(d)
    \/ \E key \in {"k", "other"} : ForeignSetItem(key, "invalid json")
    \/ \E key \in {"k", "other"} : SessionSetItem(key, "1")
    \/ \E d \in BackendDescriptors : Clear(d)

SpecBackend == Init /\ [][NextBackend]_vars

(***************************************************************************)
(* Failures inside get: a text that does not decode, a value the schema    *)
(* rejects, and a configuration without a schema, whose schema.safeParse   *)
(* throws.                                                                 *)
(***************************************************************************)
FailureDescriptors == {"keyAndDefault", "user", "email"}
FailureValues == {JUndefined, JStr("a@b"), JArr(<<JNum(1)>>), User(1, "a")}

NextFailures ==
    \/ \E d \in FailureDescriptors, options \in GetOptions : Get(d, options)
    \/ \E d \in FailureDescriptors, data \in FailureValues : Set(d, data)
    \/ \E d \in FailureDescriptors : Remove(d)
    \/ \E d \in FailureDescriptors : InitDefault(d)
    \/ \E text \in ForeignTexts : ForeignSetItem("k", text)

SpecFailures == Init /\ [][NextFailures]_vars

(***************************************************************************)
(* The accessor with the strict option (core/SafeStorage.ts), which works  *)
(* on localStorage only.                                                   *)
(***************************************************************************)
\* options of the strict get: omitted, { strict: false } or { strict: true }.
StrictOptions == {"undefined", "false", "true"}

\* A mutation: strict is the default.
SafeStorage_get_strictByDefault(storageConfig, options, storageObj) ==
    LET strict == options # "false"
        raw == getItem(storageObj, storageConfig.key)
        parsed == JSONparse(raw.s)
        result == safeParse(storageConfig.value, parsed.val)
        onFailure == Return(IF strict THEN JNull ELSE storageConfig.defaultValue)
    IN  IF raw.isNull \/ raw.s = "" THEN Return(JNull)
        ELSE IF parsed.threw THEN onFailure
        ELSE IF result.success THEN Return(result.data)
        ELSE onFailure

\* get: null for a missing or empty item; on a failure of JSON.parse (in
\* the catch block) or of the schema, null when strict, else defaultValue.
SafeStorage_get(storageConfig, options, storageObj) ==
    LET strict == options = "true"   \* const { strict = false } = options ?? {}
        raw == getItem(storageObj, storageConfig.key)
        parsed == JSONparse(raw.s)
        result == safeParse(storageConfig.value, parsed.val)
        onFailure == Return(IF strict THEN JNull ELSE storageConfig.defaultValue)
    IN  IF raw.isNull \/ raw.s = "" THEN Return(JNull)
        ELSE IF parsed.threw THEN onFailure
        ELSE IF result.success THEN Return(result.data)
        ELSE onFailure

\* set: localStorage.setItem(key, JSON.stringify(data)).
SafeStorage_set(storageConfig, data, storageObj) ==
    setItem(storageObj, storageConfig.key, ToDOMString(JSONstringify(data)))

\* remove: localStorage.removeItem(key).
SafeStorage_remove(storageConfig, storageObj) ==
    removeItem(storageObj, storageConfig.key)

\* init: set(storageConfig, defaultValue).
SafeStorage_init(storageConfig, storageObj) ==
    SafeStorage_set(storageConfig, storageConfig.defaultValue, storageObj)

StrictDescriptors == {"numbers", "user", "email"}
StrictValues ==
    {JUndefined, JStr("a@b")}
    \cup {JArr(<<JNum(n)>>) : n \in 1..MaxNum}
    \cup {User(n, "a") : n \in 1..MaxNum}

\* The entry at the descriptor's key in localStorage.
StrictEntry(d) == getItem(localStorage, Config(d).key)

StrictGet(d, options) ==
    /\ Record(Call("get", d, JUndefined, options, StrictEntry(d),
                   SafeStorage_get(Config(d), options, localStorage)))
    /\ UNCHANGED <<localStorage, sessionStorage>>

StrictSet(d, data) ==
    /\ localStorage' = SafeStorage_set(Config(d), data, localStorage)
    /\ UNCHANGED sessionStorage
    /\ Record(Call("set", d, data, "undefined", StrictEntry(d), Return(JUndefined)))

StrictRemove(d) ==
    /\ localStorage' = SafeStorage_remove(Config(d), localStorage)
    /\ UNCHANGED sessionStorage
    /\ Record(Call("remove", d, JUndefined, "undefined", StrictEntry(d),
                   Return(JUndefined)))

StrictInit(d) ==
    /\ localStorage' = SafeStorage_init(Config(d), localStorage)
    /\ UNCHANGED sessionStorage
    /\ Record(Call("init", d, JUndefined, "undefined", StrictEntry(d),
                   Return(JUndefined)))

NextStrict ==
    \/ \E d \in StrictDescriptors, options \in StrictOptions : StrictGet(d, options)
    \/ \E d \in StrictDescriptors, data \in StrictValues : StrictSet(d, data)
    \/ \E d \in StrictDescriptors : StrictRemove(d)
    \/ \E d \in StrictDescriptors : StrictInit(d)
    \/ \E text \in ForeignTexts : ForeignSetItem("k", text)

SpecStrict == Init /\ [][NextStrict]_vars

(***************************************************************************)
(* safeStorage, the accessor with the onFailure option under its earlier   *)
(* name, side by side with zodStorage.                                     *)
(***************************************************************************)
\* A mutation: under 'throw' the validation error is thrown as it is.
safeStorage_get_throwsZodError(storageConfig, options, storageObj) ==
    LET onFailure == IF options = "undefined" THEN "null" ELSE options
        raw == getItem(storageObj, storageConfig.key)
        parsed == JSONparse(raw.s)
        result == safeParse(storageConfig.value, parsed.val)
        fallback ==
            Return(IF onFailure = "default" THEN storageConfig.defaultValue ELSE JNull)
        caught(err) ==
            IF onFailure = "throw"
            THEN Throw(Error("SafeStorage parsing error: " \o err.message))
            ELSE fallback
    IN  IF raw.isNull \/ raw.s = "" THEN Return(JNull)
        ELSE IF parsed.threw THEN caught(SyntaxError)
        ELSE IF storageConfig.value = NoSchema
        THEN caught(UndefinedPropertyError("safeParse"))
        ELSE IF result.success THEN Return(result.data)
        ELSE IF onFailure = "throw" THEN Throw(ZodError(result.issues))
        ELSE fallback

\* safeStorage.get.  caught(err) is the catch block, which also receives
\* the validation error thrown inside the try block.
safeStorage_get(storageConfig, options, storageObj) ==
    LET onFailure == IF options = "undefined" THEN "null" ELSE options
        raw == getItem(storageObj, storageConfig.key)
        parsed == JSONparse(raw.s)
        result == safeParse(storageConfig.value, parsed.val)
        fallback ==
            Return(IF onFailure = "default" THEN storageConfig.defaultValue ELSE JNull)
        caught(err) ==
            IF onFailure = "throw"
            THEN Throw(Error("SafeStorage parsing error: " \o err.message))
            ELSE fallback
    IN  IF raw.isNull \/ raw.s = "" THEN Return(JNull)
        ELSE IF parsed.threw THEN caught(SyntaxError)
        ELSE IF storageConfig.value = NoSchema
        THEN caught(UndefinedPropertyError("safeParse"))
        ELSE IF result.success THEN Return(result.data)
        ELSE IF onFailure = "throw" THEN caught(ZodError(result.issues))
        ELSE fallback

\* safeStorage.set: storageObj.setItem(key, JSON.stringify(data)).
safeStorage_set(storageConfig, data, storageObj) ==
    setItem(storageObj, storageConfig.key, ToDOMString(JSONstringify(data)))

\* safeStorage.remove: storageObj.removeItem(key).
safeStorage_remove(storageConfig, storageObj) ==
    removeItem(storageObj, storageConfig.key)

\* safeStorage.init: set(storageConfig, defaultValue).
safeStorage_init(storageConfig, storageObj) ==
    safeStorage_set(storageConfig, storageConfig.defaultValue, storageObj)

BothDescriptors == {"user", "sessionData", "keyAndDefault"}
BothValues == {JUndefined, User(1, "a")}

SafeGet(d, options) ==
    /\ Record(Call("safeStorage.get", d, JUndefined, options, Entry(d),
                   safeStorage_get(Config(d), options, StorageObj(d))))
    /\ UNCHANGED <<localStorage, sessionStorage>>

SafeSet(d, data) ==
    /\ Store(Config(d), safeStorage_set(Config(d), data, StorageObj(d)))
    /\ Record(Call("safeStorage.set", d, data, "undefined", Entry(d),
                   Return(JUndefined)))

SafeRemove(d) ==
    /\ Store(Config(d), safeStorage_remove(Config(d), StorageObj(d)))
    /\ Record(Call("safeStorage.remove", d, JUndefined, "undefined", Entry(d),
                   Return(JUndefined)))

SafeInit(d) ==
    /\ Store(Config(d), safeStorage_init(Config(d), StorageObj(d)))
    /\ Record(Call("safeStorage.init", d, JUndefined, "undefined", Entry(d),
                   Return(JUndefined)))

NextBoth ==
    \/ \E d \in BothDescriptors, options \in GetOptions : Get(d, options)
    \/ \E d \in BothDescriptors, data \in BothValues : Set(d, data)
    \/ \E d \in BothDescriptors : Remove(d)
    \/ \E d \in BothDescriptors : InitDefault(d)
    \/ \E d \in BothDescriptors, options \in GetOptions : SafeGet(d, options)
    \/ \E d \in BothDescriptors, data \in BothValues : SafeSet(d, data)
    \/ \E d \in BothDescriptors : SafeRemove(d)
    \/ \E d \in BothDescriptors : SafeInit(d)
    \/ ForeignSetItem("k", "invalid json")
    \/ SessionSetItem("k", "1")

SpecBoth == Init /\ [][NextBoth]_vars

(***************************************************************************)
(* createLocalStorage(key, schema, options): the storage instance over     *)
(* localStorage and its four methods.                                      *)
(***************************************************************************)
\* options: {} when omitted, or { prefix }.
NoOptions == [hasPrefix |-> FALSE, prefix |-> ""]
StorageOptions(prefix) == [hasPrefix |-> TRUE, prefix |-> prefix]

\* A mutation: the prefix is ignored.
fullKey_ignoresPrefix(key, options) == key

\* const fullKey = options.prefix ? `${options.prefix}:${key}` : key
\* (an undefined prefix and an empty one are both falsy).
fullKey(key, options) ==
    IF options.hasPrefix /\ options.prefix # ""
    THEN options.prefix \o ":" \o key
    ELSE key

\* The instance: what its methods close over.
createLocalStorage(key, schema, options) ==
    [fullKey |-> fullKey(key, options), schema |-> schema]

\* A mutation: the decoded value is returned without consulting the schema.
createLocalStorage_get_unchecked(storage, storageObj) ==
    LET item == getItem(storageObj, storage.fullKey)
        parsed == JSONparse(item.s)
    IN  IF item.isNull THEN Return(JNull)
        ELSE IF parsed.threw THEN Return(JNull)
        ELSE Return(parsed.val)

\* get(): null for a missing item; whatever JSON.parse or schema.parse
\* throws is caught and answered by null.
createLocalStorage_get(storage, storageObj) ==
    LET item == getItem(storageObj, storage.fullKey)
        parsed == JSONparse(item.s)
        result == safeParse(storage.schema, parsed.val)
    IN  IF item.isNull THEN Return(JNull)
        ELSE IF parsed.threw THEN Return(JNull)
        ELSE IF result.success THEN Return(result.data)
        ELSE Return(JNull)

\* A mutation: the value is written as given, without validation.
createLocalStorage_set_unvalidated(storage, value, storageObj) ==
    [out |-> Return(JUndefined),
     storage |-> setItem(storageObj, storage.fullKey,
                         ToDOMString(JSONstringify(value)))]

\* A mutation: the value is validated, but stored as it was passed.
createLocalStorage_set_storesInput(storage, value, storageObj) ==
    LET result == safeParse(storage.schema, value)
    IN  IF result.success
        THEN [out |-> Return(JUndefined),
              storage |-> setItem(storageObj, storage.fullKey,
                                  ToDOMString(JSONstringify(value)))]
        ELSE [out |-> Throw(ZodError(result.issues)), storage |-> storageObj]

\* set(value): schema.parse throws before anything is written; else the
\* schema's output is serialized and stored.  Gives the outcome and the
\* storage object after the call.
createLocalStorage_set(storage, value, storageObj) ==
    LET result == safeParse(storage.schema, value)
    IN  IF result.success
        THEN [out |-> Return(JUndefined),
              storage |-> setItem(storageObj, storage.fullKey,
                                  ToDOMString(JSONstringify(result.data)))]
        ELSE [out |-> Throw(ZodError(result.issues)), storage |-> storageObj]

\* remove(): localStorage.removeItem(fullKey).
createLocalStorage_remove(storage, storageObj) ==
    removeItem(storageObj, storage.fullKey)

\* A mutation: clear removes the instance's own entry only.
createLocalStorage_clear_ownEntry(storage, storageObj) ==
    removeItem(storageObj, storage.fullKey)

\* clear(): localStorage.clear().
createLocalStorage_clear(storage, storageObj) == EmptyStorage

\* The instances the calls are made on, by name: one without options, one
\* with an empty prefix and one with the prefix 'myapp', all for one key.
UserLocal == createLocalStorage("k", UserSchema, NoOptions)
UpperLocal == createLocalStorage("k", zUpperCase, StorageOptions(""))
ThemeLocal == createLocalStorage("k", zString, StorageOptions("myapp"))

Instance(i) ==
    CASE i = "userLocal" -> UserLocal
      [] i = "upperLocal" -> UpperLocal
      [] i = "themeLocal" -> ThemeLocal
      [] i = "lengthLocal" -> createLocalStorage("k", zLength, NoOptions)
      [] i = "incrementLocal" -> createLocalStorage("k", zIncrement, NoOptions)
      [] i = "anyLocal" -> createLocalStorage("k", zAny, NoOptions)

Instances == {"userLocal", "upperLocal", "themeLocal"}

\* The values passed to set.
LocalValues == {JNull, JStr("a")} \cup {User(n, "a") : n \in 1..MaxNum}

\* localStorage.setItem(key, text) by code outside the instances.
LocalForeignWrites ==
    {<<"k", "">>, <<"myapp:k", "invalid json">>, <<"other", "x">>}

\* The entry of the instance.
LocalEntry(i) == getItem(localStorage, Instance(i).fullKey)

LocalGet(i) ==
    /\ Record(Call("get", i, JUndefined, "undefined", LocalEntry(i),
                   createLocalStorage_get(Instance(i), localStorage)))
    /\ UNCHANGED <<localStorage, sessionStorage>>

LocalSet(i, value) ==
    /\ localStorage' = createLocalStorage_set(Instance(i), value, localStorage).storage
    /\ UNCHANGED sessionStorage
    /\ Record(Call("set", i, value, "undefined", LocalEntry(i),
                   createLocalStorage_set(Instance(i), value, localStorage).out))

LocalRemove(i) ==
    /\ localStorage' = createLocalStorage_remove(Instance(i), localStorage)
    /\ UNCHANGED sessionStorage
    /\ Record(Call("remove", i, JUndefined, "undefined", LocalEntry(i),
                   Return(JUndefined)))

LocalClear(i) ==
    /\ localStorage' = createLocalStorage_clear(Instance(i), localStorage)
    /\ UNCHANGED sessionStorage
    /\ Record(Call("clear", i, JUndefined, "undefined", LocalEntry(i),
                   Return(JUndefined)))

NextLocal ==
    \/ \E i \in Instances : LocalGet(i)
    \/ \E i \in Instances, value \in LocalValues : LocalSet(i, value)
    \/ \E i \in Instances : LocalRemove(i)
    \/ \E i \in Instances : LocalClear(i)
    \/ \E w \in LocalForeignWrites : ForeignSetItem(w[1], w[2])
    \/ SessionSetItem("k", "1")

SpecLocal == Init /\ [][NextLocal]_vars

\* The instances whose schema is applied on write and again on read.
TransformInstances == {"upperLocal", "lengthLocal", "incrementLocal", "anyLocal"}
TransformValues == {JUndefined, JNaN, JNull, JStr("a"), JNum(1)}

NextTransform ==
    \/ \E i \in TransformInstances : LocalGet(i)
    \/ \E i \in TransformInstances, value \in TransformValues : LocalSet(i, value)
    \/ \E i \in TransformInstances : LocalRemove(i)
    \/ \E i \in TransformInstances : LocalClear(i)

SpecTransform == Init /\ [][NextTransform]_vars

(***************************************************************************)
(* Vocabulary of the properties.                                           *)
(***************************************************************************)
\* Deep equality of two values; the order of an object's keys is ignored.
RECURSIVE DeepEqual(_, _)
DeepEqual(a, b) ==
    IF a.t # b.t THEN FALSE
    ELSE IF a.t = "array"
    THEN /\ Len(a.items) = Len(b.items)
         /\ \A i \in 1..Len(a.items) : DeepEqual(a.items[i], b.items[i])
    ELSE IF a.t = "object"
    THEN /\ {a.keys[i] : i \in 1..Len(a.keys)} = {b.keys[i] : i \in 1..Len(b.keys)}
         /\ \A i \in 1..Len(a.keys) : DeepEqual(a.items[i], GetProp(b, a.keys[i]))
    ELSE a = b

\* The schema accepts the value, and its output for it.
Accepts(schema, v) == safeParse(schema, v).success
Output(schema, v) == safeParse(schema, v).data

\* The value survives JSON: it has an encoding, and decoding the encoding
\* gives a deep-equal value.
JSONRepresentable(v) ==
    /\ ~JSONstringify(v).undef
    /\ ~JSONparse(JSONstringify(v).s).threw
    /\ DeepEqual(JSONparse(JSONstringify(v).s).val, v)

\* An entry (a result of getItem) that get does not take for absent.
NonEmpty(e) == ~e.isNull /\ e.s # ""
\* The entry's text cannot be decoded.
DecodeFails(e) == NonEmpty(e) /\ JSONparse(e.s).threw
\* The entry's text decodes to a value the schema rejects.
SchemaFails(e, schema) ==
    /\ NonEmpty(e)
    /\ ~JSONparse(e.s).threw
    /\ ~Accepts(schema, JSONparse(e.s).val)

\* The last two calls were op1 and then op2, on the same descriptor.
Then(op1, op2) == prev.op = op1 /\ last.op = op2 /\ prev.d = last.d

(***************************************************************************)
(* C1 (as stated).  Round trip: get(d) right after set(d, v), for any v    *)
(* the schema of d accepts, returns a value deep-equal to the schema's     *)
(* output for v (v itself when the schema does not transform).             *)
(* Violated: undefined and NaN have no JSON encoding that decodes back.    *)
(***************************************************************************)
C1_RoundTripAnyValue ==
    (Then("set", "get") /\ Accepts(Config(last.d).value, prev.data))
        => /\ last.out.kind = "return"
           /\ DeepEqual(last.out.value, Output(Config(last.d).value, prev.data))

(***************************************************************************)
(* C1 (amended).  Round trip for JSON-representable values: get(d) right   *)
(* after set(d, v), for any v that the schema of d accepts and that JSON   *)
(* encodes and decodes back to a deep-equal value, returns under every     *)
(* policy a value deep-equal to the schema's output for v.                 *)
(***************************************************************************)
C1_RoundTrip ==
    (/\ Then("set", "get")
     /\ Accepts(Config(last.d).value, prev.data)
     /\ JSONRepresentable(prev.data))
        => /\ last.out.kind = "return"
           /\ DeepEqual(last.out.value, Output(Config(last.d).value, prev.data))

C1_Witness ==
    /\ Then("set", "get")
    /\ last.d = "transform"
    /\ JSONRepresentable(prev.data)
    /\ last.out = Return(JStr("A@B"))

(***************************************************************************)
(* C2.  Absence is null: a get on a key that is absent from the selected   *)
(* backend (never written, or removed) returns null under every policy;    *)
(* it neither returns the default value nor throws.                        *)
(***************************************************************************)
C2_AbsenceIsNull ==
    (last.op = "get" /\ last.pre.isNull) => last.out = Return(JNull)

C2_Witness ==
    /\ Then("remove", "get")
    /\ ~prev.pre.isNull
    /\ last.pre.isNull
    /\ last.options = "default"
    /\ Config(last.d).defaultValue # JNull
    /\ last.out = Return(JNull)

(***************************************************************************)
(* C3.  Policy determinism: while the stored text decodes but fails the    *)
(* schema of d, get(d) with no options gives null, with onFailure          *)
(* 'default' gives d.defaultValue and with onFailure 'throw' throws, all   *)
(* three against the same store; a get just made recorded that outcome.    *)
(***************************************************************************)
C3_PolicyDeterminism ==
    \A d \in Descriptors :
        SchemaFails(Entry(d), Config(d).value) =>
            /\ get(Config(d), "undefined", StorageObj(d)) = Return(JNull)
            /\ get(Config(d), "null", StorageObj(d)) = Return(JNull)
            /\ get(Config(d), "default", StorageObj(d)) = Return(Config(d).defaultValue)
            /\ get(Config(d), "throw", StorageObj(d)).kind = "throw"
            /\ (last.op = "get" /\ last.d = d)
                   => last.out = get(Config(d), last.options, StorageObj(d))

C3_Witness ==
    /\ Then("get", "get")
    /\ SchemaFails(last.pre, Config(last.d).value)
    /\ last.pre = Entry(last.d)
    /\ last.options = "default"
    /\ last.out = Return(User(0, ""))

(***************************************************************************)
(* C4.  A stored text that cannot be JSON-decoded goes through the same    *)
(* failure policy: null by default, d.defaultValue under 'default', a      *)
(* thrown error under 'throw'.                                             *)
(***************************************************************************)
C4_DecodeFailurePolicy ==
    \A d \in Descriptors :
        DecodeFails(Entry(d)) =>
            /\ get(Config(d), "undefined", StorageObj(d)) = Return(JNull)
            /\ get(Config(d), "null", StorageObj(d)) = Return(JNull)
            /\ get(Config(d), "default", StorageObj(d)) = Return(Config(d).defaultValue)
            /\ get(Config(d), "throw", StorageObj(d)).kind = "throw"
            /\ (last.op = "get" /\ last.d = d)
                   => last.out = get(Config(d), last.options, StorageObj(d))

C4_Witness ==
    /\ last.op = "get"
    /\ last.pre = [isNull |-> FALSE, s |-> "invalid json"]
    /\ last.options = "default"
    /\ last.d = "numbers"
    /\ last.out = Return(JArr(<<>>))

(***************************************************************************)
(* C5.  Under onFailure 'throw' the error raised for a schema failure      *)
(* carries the validator's issues, and is of another kind than the error   *)
(* raised for a decode failure.                                            *)
(* Violated: both are a plain Error with the same message prefix.          *)
(***************************************************************************)
C5_DistinguishableErrors ==
    (/\ last.op = "get"
     /\ last.options = "throw"
     /\ SchemaFails(last.pre, Config(last.d).value))
        => /\ last.out.kind = "throw"
           /\ last.out.error.issues
                  = safeParse(Config(last.d).value, JSONparse(last.pre.s).val).issues
           /\ last.out.error.name
                  # get(Config(last.d), "throw",
                        setItem(EmptyStorage, Config(last.d).key, "invalid json")).error.name

(***************************************************************************)
(* C6.  set(d, v) with a value the schema of d rejects signals a           *)
(* validation failure and leaves the entry at d.key unchanged.             *)
(* Violated: set writes without validating.                                *)
(***************************************************************************)
C6_SetValidates ==
    (last.op = "set" /\ ~Accepts(Config(last.d).value, last.data))
        => /\ last.out.kind = "throw"
           /\ Entry(last.d) = last.pre

(***************************************************************************)
(* C7.  Remove then get: a get(d) right after remove(d) returns null       *)
(* whatever was stored; a remove returns normally and leaves the key       *)
(* absent, and on a key that was already absent it changes nothing.        *)
(***************************************************************************)
C7_RemoveThenGet ==
    [][/\ (last.op = "remove" /\ last'.op = "get" /\ last'.d = last.d)
            => last'.out = Return(JNull)
       /\ (last'.op = "remove")
            => /\ last'.out = Return(JUndefined)
               /\ getItem(IF StorageOf(Config(last'.d)) = "session"
                          THEN sessionStorage' ELSE localStorage',
                          Config(last'.d).key).isNull
               /\ last'.pre.isNull
                     => (localStorage' = localStorage /\ sessionStorage' = sessionStorage)
      ]_vars

C7_Witness ==
    /\ Then("remove", "get")
    /\ NonEmpty(prev.pre)
    /\ last.options = "default"
    /\ Config(last.d).defaultValue # JNull
    /\ last.out = Return(JNull)

(***************************************************************************)
(* C8 (as stated).  Init overwrites: get(d) right after init(d) returns    *)
(* d.defaultValue, for any descriptor and whatever was stored before.      *)
(* Violated: the default value may be one the schema rejects or            *)
(* transforms, or one with no JSON encoding.                               *)
(***************************************************************************)
C8_InitThenGetIsDefault ==
    (Then("init", "get") /\ last.options = "undefined")
        => last.out = Return(Config(last.d).defaultValue)

(***************************************************************************)
(* C8 (amended).  Init overwrites: for a descriptor whose default value is *)
(* JSON-representable and accepted by its schema, get(d) right after       *)
(* init(d) returns the schema's output for d.defaultValue (d.defaultValue  *)
(* itself when the schema does not transform it), whatever was stored      *)
(* before; init writes the default value's encoding over any entry.        *)
(***************************************************************************)
C8_InitOverwrites ==
    /\ (/\ Then("init", "get")
        /\ JSONRepresentable(Config(last.d).defaultValue)
        /\ Accepts(Config(last.d).value, Config(last.d).defaultValue))
          => /\ last.out.kind = "return"
             /\ DeepEqual(last.out.value,
                          Output(Config(last.d).value, Config(last.d).defaultValue))
    /\ (last.op = "init")
          => Entry(last.d) = [isNull |-> FALSE,
                              s |-> ToDOMString(JSONstringify(Config(last.d).defaultValue))]

C8_Witness ==
    /\ Then("init", "get")
    /\ last.d = "user"
    /\ prev.pre = [isNull |-> FALSE, s |-> ToDOMString(JSONstringify(User(1, "a")))]
    /\ last.out = Return(User(0, ""))

(***************************************************************************)
(* C9.  init(d) signals MissingDefault when d has no default value.        *)
(* Violated: init returns normally, having written the text "undefined".   *)
(***************************************************************************)
C9_InitMissingDefault ==
    (last.op = "init" /\ Config(last.d).defaultValue = JUndefined)
        => last.out.kind = "throw"

(***************************************************************************)
(* C10.  get(d, {onFailure: 'default'}) on a stored text that fails        *)
(* decoding or the schema signals MissingDefault when d has no default     *)
(* value.                                                                  *)
(* Violated: get returns undefined.                                        *)
(***************************************************************************)
C10_GetMissingDefault ==
    (/\ last.op = "get"
     /\ last.options = "default"
     /\ Config(last.d).defaultValue = JUndefined
     /\ (DecodeFails(last.pre) \/ SchemaFails(last.pre, Config(last.d).value)))
        => last.out.kind = "throw"

\* The entry holding the text s.
Present(s) == [isNull |-> FALSE, s |-> s]

(***************************************************************************)
(* C11.  For a descriptor made by ss without a defaultValue, get returns   *)
(* null whenever the stored text fails decoding or the schema, whatever    *)
(* options are passed.                                                     *)
(* Violated: under 'default' get returns undefined, under 'throw' it       *)
(* throws.                                                                 *)
(***************************************************************************)
C11_WithoutDefaultAlwaysNull ==
    (/\ last.op = "get"
     /\ Config(last.d) = WithoutDefault
     /\ (DecodeFails(last.pre) \/ SchemaFails(last.pre, Config(last.d).value)))
        => last.out = Return(JNull)

(***************************************************************************)
(* C13.  get has no side effects: a step that is a get, whatever its       *)
(* policy and outcome, leaves both storages unchanged, and the same get    *)
(* made again right after it has the same outcome.                         *)
(***************************************************************************)
C13_GetHasNoSideEffects ==
    [][(last'.op = "get")
          => /\ localStorage' = localStorage
             /\ sessionStorage' = sessionStorage
             /\ (last.op = "get" /\ last.d = last'.d /\ last.options = last'.options)
                   => last'.out = last.out
      ]_vars

C13_Witness ==
    /\ Then("get", "get")
    /\ DecodeFails(last.pre)
    /\ last.options = "throw"
    /\ last.out.kind = "throw"
    /\ Entry(last.d) = last.pre

(***************************************************************************)
(* C14.  An empty string stored at the key is taken for absent: get        *)
(* returns null under every policy, not the default value under 'default'  *)
(* and no error under 'throw' (the decoder, which rejects the empty text,  *)
(* is not consulted).                                                      *)
(***************************************************************************)
C14_EmptyStringIsAbsent ==
    (last.op = "get" /\ last.pre = Present("")) => last.out = Return(JNull)

C14_Witness ==
    /\ last.op = "get"
    /\ last.pre = Present("")
    /\ JSONparse(last.pre.s).threw
    /\ last.options = "throw"
    /\ last.out = Return(JNull)

(***************************************************************************)
(* C15.  Descriptors sharing a backend and a key: after any interleaving   *)
(* of their calls the entry is what the last set or init wrote (absent     *)
(* after a remove), whichever descriptor made the call, and a get answers  *)
(* from the one text stored at that moment, validated under the schema of  *)
(* the descriptor that made the get.                                       *)
(***************************************************************************)
C15_LastWriterWins ==
    /\ (last.op = "set")
          => Entry(last.d) = Present(ToDOMString(JSONstringify(last.data)))
    /\ (last.op = "init")
          => Entry(last.d)
               = Present(ToDOMString(JSONstringify(Config(last.d).defaultValue)))
    /\ (last.op = "remove") => Entry(last.d).isNull
    /\ (last.op = "get")
          => /\ Entry(last.d) = last.pre
             /\ (prev.op = "set")
                   => last.pre = Present(ToDOMString(JSONstringify(prev.data)))
             /\ (prev.op = "init")
                   => last.pre = Present(ToDOMString(
                                     JSONstringify(Config(prev.d).defaultValue)))
             /\ (prev.op = "remove") => last.pre.isNull
             /\ (/\ NonEmpty(last.pre)
                 /\ ~JSONparse(last.pre.s).threw
                 /\ Accepts(Config(last.d).value, JSONparse(last.pre.s).val))
                   => last.out = Return(Output(Config(last.d).value,
                                               JSONparse(last.pre.s).val))
             /\ (SchemaFails(last.pre, Config(last.d).value)
                 /\ last.options \in {"undefined", "null"})
                   => last.out = Return(JNull)

C15_Witness ==
    /\ prev.op = "set"
    /\ prev.d = "any"
    /\ last.op = "get"
    /\ last.d = "user"
    /\ last.out = Return(User(1, "a"))

(***************************************************************************)
(* C12.  Backend isolation: a descriptor with storage 'session' reads and  *)
(* writes only sessionStorage, one with storage 'local' or with no storage *)
(* field only localStorage.  A set, init or remove through a descriptor    *)
(* lands in its own backend and leaves the other backend as it was; a get  *)
(* is answered from the entry of its own backend alone: null when that     *)
(* entry is absent, whatever the other backend holds under the same key.   *)
(***************************************************************************)
C12_BackendIsolation ==
    [][(last'.op \in {"get", "set", "init", "remove"}) =>
         LET config == Config(last'.d)
             session == config.storage = "session"
             own == IF session THEN sessionStorage ELSE localStorage
             ownAfter == IF session THEN sessionStorage' ELSE localStorage'
             written == IF last'.op = "set" THEN last'.data ELSE config.defaultValue
         IN  /\ IF session THEN localStorage' = localStorage
                           ELSE sessionStorage' = sessionStorage
             /\ last'.pre = getItem(own, config.key)
             /\ (last'.op \in {"set", "init"})
                   => ownAfter = setItem(own, config.key,
                                         ToDOMString(JSONstringify(written)))
             /\ (last'.op = "remove") => ownAfter = removeItem(own, config.key)
             /\ (last'.op = "get")
                   => /\ ownAfter = own
                      /\ getItem(own, config.key).isNull => last'.out = Return(JNull)
                      /\ last'.out = get(config, last'.options, own)
      ]_vars

C12_Witness ==
    /\ Then("set", "get")
    /\ last.d = "sessionData"
    /\ last.out = Return(JStr("a"))
    /\ getItem(sessionStorage, "k") = Present("\"a\"")
    /\ getItem(localStorage, "k") = Present("\"b\"")

(***************************************************************************)
(* C20.  zodStorage.clear(storage) returns normally and leaves no entry    *)
(* at the key of the storage.                                              *)
(* Violated: zodStorage has no clear; the call throws a TypeError and the  *)
(* entry stays.                                                            *)
(***************************************************************************)
C20_ClearRemovesEntry ==
    (last.op = "clear")
        => /\ last.out.kind = "return"
           /\ Entry(last.d).isNull

(***************************************************************************)
(* C16.  createLocalStorage(...).set(value) throws when the value fails    *)
(* the schema and then writes nothing: localStorage, with the entry        *)
(* present or absent, is as before.  When the value passes, set returns    *)
(* and the entry holds the serialization of the schema's parsed output.    *)
(***************************************************************************)
C16_LocalSetValidates ==
    [][(last'.op = "set") =>
         IF Accepts(Instance(last'.d).schema, last'.data)
         THEN /\ last'.out = Return(JUndefined)
              /\ localStorage'
                   = setItem(localStorage, Instance(last'.d).fullKey,
                             ToDOMString(JSONstringify(
                                 Output(Instance(last'.d).schema, last'.data))))
         ELSE /\ last'.out.kind = "throw"
              /\ localStorage' = localStorage
      ]_vars

C16_Witness ==
    /\ last.op = "set"
    /\ last.d = "upperLocal"
    /\ last.data = JNull
    /\ last.out.kind = "throw"
    /\ last.pre = Present("\"A\"")
    /\ LocalEntry(last.d) = last.pre

(***************************************************************************)
(* C17.  createLocalStorage(...).get() never throws.  It returns null      *)
(* when the key is absent, when the stored string is not valid JSON (the   *)
(* empty string included) and when the decoded value fails the schema;     *)
(* otherwise it returns the schema's parsed output.                        *)
(***************************************************************************)
C17_LocalGetNullOrOutput ==
    (last.op = "get") =>
        /\ last.out.kind = "return"
        /\ IF \/ last.pre.isNull
              \/ JSONparse(last.pre.s).threw
              \/ ~Accepts(Instance(last.d).schema, JSONparse(last.pre.s).val)
           THEN last.out = Return(JNull)
           ELSE last.out = Return(Output(Instance(last.d).schema,
                                         JSONparse(last.pre.s).val))
        /\ (last.pre = Present("")) => last.out = Return(JNull)

C17_Witness ==
    /\ last.op = "get"
    /\ last.d = "userLocal"
    /\ last.pre = Present("\"A\"")
    /\ ~JSONparse(last.pre.s).threw
    /\ last.out = Return(JNull)

(***************************************************************************)
(* C18.  An instance made with a non-empty prefix addresses the entry      *)
(* prefix:key of localStorage, one made with no prefix or an empty one     *)
(* the entry key.  get, set and remove of the instance read and change     *)
(* that entry and no other, a remove leaves it absent, and a get right     *)
(* after a remove on the same instance returns null.                       *)
(***************************************************************************)
C18_PrefixedKey ==
    [][(last'.op \in {"get", "set", "remove"}) =>
         LET name == IF last'.d = "themeLocal" THEN "myapp:k" ELSE "k"
         IN  /\ last'.pre = getItem(localStorage, name)
             /\ \A other \in {"k", "myapp:k", "other"} \ {name} :
                    getItem(localStorage', other) = getItem(localStorage, other)
             /\ (last'.op = "get") => localStorage' = localStorage
             /\ (last'.op = "set" /\ last'.out.kind = "return")
                   => ~getItem(localStorage', name).isNull
             /\ (last'.op = "remove") => getItem(localStorage', name).isNull
             /\ (last.op = "remove" /\ last'.op = "get" /\ last'.d = last.d)
                   => last'.out = Return(JNull)
      ]_vars

C18_Witness ==
    /\ Then("remove", "get")
    /\ last.d = "themeLocal"
    /\ prev.pre = Present("\"a\"")
    /\ last.out = Return(JNull)
    /\ getItem(localStorage, "myapp:k").isNull
    /\ ~getItem(localStorage, "k").isNull

(***************************************************************************)
(* C19.  createLocalStorage(...).clear() removes every entry of            *)
(* localStorage, those of other instances, of other prefixes and of keys   *)
(* the library never wrote included, and leaves sessionStorage unchanged.  *)
(***************************************************************************)
C19_ClearEmptiesLocalStorage ==
    [][(last'.op = "clear")
          => /\ localStorage' = EmptyStorage
             /\ sessionStorage' = sessionStorage
             /\ last'.out = Return(JUndefined)
      ]_vars

C19_Witness ==
    /\ prev.op = "setItem"
    /\ prev.data = JStr("x")
    /\ last.op = "clear"
    /\ last.d = "themeLocal"
    /\ last.pre.isNull
    /\ localStorage = EmptyStorage
    /\ getItem(sessionStorage, "k") = Present("1")

(***************************************************************************)
(* C21.  A descriptor constructed from a key and a defaultValue only has   *)
(* the schema inferred from the shape of defaultValue: for the default     *)
(* [1] an array of numbers, so that a get on the stored text [1] returns   *)
(* the array [1].                                                          *)
(* Violated: zs copies config.schema, which is undefined; nothing is       *)
(* inferred, and get fails on every stored text.                           *)
(***************************************************************************)
C21_SchemaInferredFromDefault ==
    (last.op = "get" /\ last.d = "keyAndDefault" /\ last.pre = Present("[1]"))
        => /\ Config(last.d).value = zArray(zNumber)
           /\ last.out = Return(JArr(<<JNum(1)>>))

(***************************************************************************)
(* C22.  The accessor with the strict option: on a stored text that fails  *)
(* decoding or the schema, get(d) and get(d, {strict: false}) return       *)
(* d.defaultValue and get(d, {strict: true}) returns null; on a missing    *)
(* key every one of the three returns null.  A get just made recorded      *)
(* that outcome.                                                           *)
(***************************************************************************)
C22_StrictOption ==
    \A d \in StrictDescriptors :
        /\ (DecodeFails(StrictEntry(d)) \/ SchemaFails(StrictEntry(d), Config(d).value))
              => /\ SafeStorage_get(Config(d), "undefined", localStorage)
                       = Return(Config(d).defaultValue)
                 /\ SafeStorage_get(Config(d), "false", localStorage)
                       = Return(Config(d).defaultValue)
                 /\ SafeStorage_get(Config(d), "true", localStorage) = Return(JNull)
        /\ StrictEntry(d).isNull
              => \A options \in StrictOptions :
                     SafeStorage_get(Config(d), options, localStorage) = Return(JNull)
        /\ (last.op = "get" /\ last.d = d)
              => /\ last.pre = StrictEntry(d)
                 /\ last.out = SafeStorage_get(Config(d), last.options, localStorage)

C22_Witness ==
    /\ Then("get", "get")
    /\ last.d = "user"
    /\ last.options = "undefined"
    /\ SchemaFails(last.pre, Config(last.d).value)
    /\ last.out = Return(User(0, ""))
    /\ SafeStorage_get(Config(last.d), "true", localStorage) = Return(JNull)

(***************************************************************************)
(* C23.  get returns the schema's output for the decoded stored value,     *)
(* not the value as written: with the upper-casing schema, set(d, v)       *)
(* stores the serialization of v untransformed, and a get(d) right after   *)
(* it returns the upper-cased v, under every policy.                       *)
(***************************************************************************)
C23_TransformOnRead ==
    /\ (last.op = "set" /\ last.d = "transform" /\ last.data.t = "string")
          => Entry(last.d) = Present(Quote(last.data.s))
    /\ (Then("set", "get") /\ last.d = "transform" /\ prev.data.t = "string")
          => /\ last.pre = Present(Quote(prev.data.s))
             /\ last.out = Return(JStr(toUpperCase(prev.data.s)))

C23_Witness ==
    /\ Then("set", "get")
    /\ last.d = "transform"
    /\ prev.data = JStr("a")
    /\ last.pre = Present("\"a\"")
    /\ last.options = "throw"
    /\ last.out = Return(JStr("A"))

(***************************************************************************)
(* C24.  A get with no options, with onFailure 'null' or with onFailure    *)
(* 'default' never raises, whatever text is stored and whatever the        *)
(* decoder and the validator do with it, a validator that itself throws    *)
(* included; a get that raises was made with onFailure 'throw'.            *)
(***************************************************************************)
C24_OnlyThrowPropagates ==
    (last.op = "get")
        => /\ (last.options \in {"undefined", "null", "default"})
                 => last.out.kind = "return"
           /\ (last.out.kind = "throw") => last.options = "throw"

C24_Witness ==
    /\ last.op = "get"
    /\ last.d = "keyAndDefault"
    /\ last.options = "default"
    /\ NonEmpty(last.pre)
    /\ ~JSONparse(last.pre.s).threw
    /\ tryBlock(Config(last.d), "default", localStorage)
           = Throw(UndefinedPropertyError("safeParse"))
    /\ last.out = Return(JArr(<<JNum(1)>>))

(***************************************************************************)
(* C25.  After set(d, null) with a schema that accepts null the key is     *)
(* present, holding the text null, and get(d) returns null as a            *)
(* successful read under every policy: it does not throw under 'throw'     *)
(* and does not return the default value under 'default'.  A null from     *)
(* get therefore does not tell that the key is absent.                     *)
(***************************************************************************)
C25_StoredNullReadsAsNull ==
    /\ (last.op = "set" /\ last.data = JNull) => Entry(last.d) = Present("null")
    /\ (/\ last.op = "get"
        /\ last.pre = Present("null")
        /\ Accepts(Config(last.d).value, JNull))
          => last.out = Return(JNull)
    /\ (/\ Then("set", "get")
        /\ prev.data = JNull
        /\ Accepts(Config(last.d).value, JNull))
          => /\ last.pre = Present("null")
             /\ ~Entry(last.d).isNull
             /\ last.out = Return(JNull)

C25_Witness ==
    /\ Then("set", "get")
    /\ last.d = "withoutDefault"
    /\ prev.data = JNull
    /\ last.options = "default"
    /\ Config(last.d).defaultValue # JNull
    /\ Entry(last.d) = Present("null")
    /\ last.out = Return(JNull)

(***************************************************************************)
(* C26.  Every result of get is null, or the schema's output for the       *)
(* decoding of the text stored at the key at that moment, or, under        *)
(* onFailure 'default' only, the default value of the descriptor as it     *)
(* is, unvalidated (it may be a value the schema rejects) and whatever     *)
(* was written before.                                                     *)
(***************************************************************************)
C26_ResultsOfGet ==
    (last.op = "get" /\ last.out.kind = "return")
        => \/ last.out.value = JNull
           \/ /\ NonEmpty(Entry(last.d))
              /\ ~JSONparse(Entry(last.d).s).threw
              /\ Accepts(Config(last.d).value, JSONparse(Entry(last.d).s).val)
              /\ last.out.value
                    = Output(Config(last.d).value, JSONparse(Entry(last.d).s).val)
           \/ /\ last.options = "default"
              /\ last.out.value = Config(last.d).defaultValue

C26_Witness ==
    /\ Then("set", "get")
    /\ last.d = "email"
    /\ last.options = "default"
    /\ SchemaFails(Entry(last.d), Config(last.d).value)
    /\ ~Accepts(Config(last.d).value, Config(last.d).defaultValue)
    /\ last.out = Return(JStr(""))

(***************************************************************************)
(* C27.  set, init and remove change at most the one entry at the          *)
(* descriptor's key in the backend the descriptor selects: every other     *)
(* key of that backend keeps its entry, and the other backend is           *)
(* unchanged as a whole.                                                   *)
(***************************************************************************)
C27_SingleEntryFrame ==
    [][(last'.op \in {"set", "init", "remove"}) =>
         LET config == Config(last'.d)
             session == config.storage = "session"
             own == IF session THEN sessionStorage ELSE localStorage
             ownAfter == IF session THEN sessionStorage' ELSE localStorage'
         IN  /\ IF session THEN localStorage' = localStorage
                           ELSE sessionStorage' = sessionStorage
             /\ \A key \in ((DOMAIN own) \cup (DOMAIN ownAfter)) \ {config.key} :
                    getItem(ownAfter, key) = getItem(own, key)
      ]_vars

C27_Witness ==
    /\ last.op = "remove"
    /\ last.d = "sessionData"
    /\ NonEmpty(last.pre)
    /\ getItem(sessionStorage, "k").isNull
    /\ getItem(sessionStorage, "other") = Present("1")
    /\ getItem(localStorage, "k") = Present("invalid json")
    /\ getItem(localStorage, "other") = Present("invalid json")

(***************************************************************************)
(* C28.  Whenever set(d, v) or init(d) returns, for any v, a value         *)
(* without a JSON encoding such as undefined included, the entry at d.key  *)
(* is present and not empty, so that a get that follows does not take the  *)
(* branch of absence; and a key that is present becomes absent by a        *)
(* remove only.                                                            *)
(***************************************************************************)
C28_WrittenEntryIsNonEmpty ==
    [][/\ (last'.op \in {"set", "init"})
            => /\ last'.out = Return(JUndefined)
               /\ NonEmpty(getItem(IF StorageOf(Config(last'.d)) = "session"
                                   THEN sessionStorage' ELSE localStorage',
                                   Config(last'.d).key))
       /\ (last.op \in {"set", "init"} /\ last'.op = "get")
            => NonEmpty(last'.pre)
       /\ \A key \in DOMAIN localStorage :
              (key \notin DOMAIN localStorage') => last'.op = "remove"
       /\ \A key \in DOMAIN sessionStorage :
              (key \notin DOMAIN sessionStorage') => last'.op = "remove"
      ]_vars

C28_Witness ==
    /\ prev.op = "set"
    /\ prev.data = JUndefined
    /\ last.op = "get"
    /\ last.options = "throw"
    /\ last.pre = Present("undefined")
    /\ last.out.kind = "throw"

(***************************************************************************)
(* C29 (as stated).  createLocalStorage applies the schema on write and    *)
(* on read: get() right after a set(v) that passed returns the schema's    *)
(* output for the schema's output for v, and null when the schema does     *)
(* not accept its own output for v.                                        *)
(* Violated: an output without a JSON encoding that decodes back           *)
(* (undefined, NaN) is not what the second pass sees.                      *)
(***************************************************************************)
C29_SchemaAppliedTwiceAnyValue ==
    (Then("set", "get") /\ Accepts(Instance(last.d).schema, prev.data))
        => LET schema == Instance(last.d).schema
               once == Output(schema, prev.data)
           IN  IF Accepts(schema, once)
               THEN last.out = Return(Output(schema, once))
               ELSE last.out = Return(JNull)

(***************************************************************************)
(* C29 (amended).  For a value v whose schema output is JSON-              *)
(* representable, get() right after a set(v) that passed reads the         *)
(* serialization of that output and returns the schema's output for it,    *)
(* the schema applied twice: this is the output for v only when the        *)
(* schema maps that output to itself, and it is null when the schema       *)
(* does not accept its own output.                                         *)
(***************************************************************************)
C29_SchemaAppliedTwice ==
    (/\ Then("set", "get")
     /\ Accepts(Instance(last.d).schema, prev.data)
     /\ JSONRepresentable(Output(Instance(last.d).schema, prev.data)))
        => LET schema == Instance(last.d).schema
               once == Output(schema, prev.data)
           IN  /\ last.pre = Present(ToDOMString(JSONstringify(once)))
               /\ IF Accepts(schema, once)
                  THEN last.out = Return(Output(schema, once))
                  ELSE last.out = Return(JNull)
               /\ (last.out = Return(once)) => Output(schema, once) = once

C29_Witness ==
    /\ Then("set", "get")
    /\ last.d = "incrementLocal"
    /\ prev.data = JNum(1)
    /\ last.pre = Present("2")
    /\ last.out = Return(JNum(3))

(***************************************************************************)
(* C30.  safeStorage and zodStorage are interchangeable: whichever of the  *)
(* two makes a call (get with any onFailure, set, remove, init), on any    *)
(* descriptor and store, the result or the error thrown and both backends  *)
(* after the call are what the other one gives for the same call on the    *)
(* same store.                                                             *)
(***************************************************************************)
C30_Interchangeable ==
    [][(last'.op \in {"get", "set", "remove", "init", "safeStorage.get",
                      "safeStorage.set", "safeStorage.remove", "safeStorage.init"}) =>
         LET config == Config(last'.d)
             session == StorageOf(config) = "session"
             own == IF session THEN sessionStorage ELSE localStorage
             ownAfter == IF session THEN sessionStorage' ELSE localStorage'
             bySafe == last'.op \in {"safeStorage.get", "safeStorage.set",
                                     "safeStorage.remove", "safeStorage.init"}
             isOp(name) == last'.op \in {name, "safeStorage." \o name}
         IN  /\ IF session THEN localStorage' = localStorage
                           ELSE sessionStorage' = sessionStorage
             /\ isOp("get")
                   => /\ ownAfter = own
                      /\ last'.out = IF bySafe
                                     THEN get(config, last'.options, own)
                                     ELSE safeStorage_get(config, last'.options, own)
             /\ isOp("set")
                   => /\ last'.out = Return(JUndefined)
                      /\ ownAfter = IF bySafe
                                    THEN set(config, last'.data, own)
                                    ELSE safeStorage_set(config, last'.data, own)
             /\ isOp("remove")
                   => /\ last'.out = Return(JUndefined)
                      /\ ownAfter = IF bySafe
                                    THEN remove(config, own)
                                    ELSE safeStorage_remove(config, own)
             /\ isOp("init")
                   => /\ last'.out = Return(JUndefined)
                      /\ ownAfter = IF bySafe
                                    THEN init(config, own)
                                    ELSE safeStorage_init(config, own)
      ]_vars

C30_Witness ==
    /\ last.op = "safeStorage.get"
    /\ last.d = "user"
    /\ last.options = "throw"
    /\ SchemaFails(last.pre, Config(last.d).value)
    /\ last.out = Throw(Error("SafeStorage parsing error: [invalid_type]"))
    /\ last.out = get(Config(last.d), "throw", localStorage)

====
